---------------------------- MODULE Spec2Model ----------------------------
(***************************************************************************)
(* Course Connect planner: the prerequisite evaluator                      *)
(* (app/src/utils/prerequisites.ts) and the plan mutations of App.tsx      *)
(* (handleCourseSelect, handleCourseDeselect, computeTermCredits), with    *)
(* term_rank of schema.sql and the requirement panels (RequirementBoxes,   *)
(* TermCourseList) each run on inputs of its own.                          *)
(*                                                                         *)
(* A course code is a sequence of one-character strings, so that           *)
(* normalizeCode and the subject/number regular expressions are computed   *)
(* on the characters as the code computes them.                            *)
(***************************************************************************)
EXTENDS Integers, Sequences, FiniteSets, TLC

VARIABLES
    selectedCourses,      \* useState: the selection, with every queued update applied
    electiveAssignments,  \* useState: course -> term, with every queued update applied
    renderedSelected,     \* selectedCourses as last rendered (what the handlers close over)
    renderedAssignments,  \* electiveAssignments as last rendered
    pendingAssign,        \* setElectiveAssignments calls of updaters React has not run yet
    batch,                \* handler calls since the last render
    serialSelected,       \* the selection had the calls of this batch run one after the other
    serialAssignments,    \* the assignments had the calls of this batch run one after the other
    lastOp,               \* the last request and its outcome
    evEdges,              \* edges handed to the evaluator alone
    evSelected,           \* selection handed to the evaluator alone
    evMeets,              \* meetsPrerequisites(EvTarget, evEdges, evSelected)
    evMissing,            \* getMissingPrerequisites(EvTarget, evEdges, evSelected)
    evPc,                 \* "input" before the evaluator has run, "done" after
    rankIn,               \* the two term codes handed to term_rank
    rankOut,              \* their ranks, <<>> before term_rank has run
    resolveIn,            \* catalog, requirement and selection handed to the requirement panels
    resolveOut,           \* what the panels computed from them
    user,                 \* useAuth().user as usePlans last saw it, NoUser when signed out
    plans,                \* usePlans: the locally held list of saved plans
    loading,              \* usePlans: loading
    error,                \* usePlans: an error is held
    inFlight              \* fetchPlans calls awaiting their reply, in the order issued

planVars == <<selectedCourses, electiveAssignments, renderedSelected, renderedAssignments,
              pendingAssign, batch, serialSelected, serialAssignments, lastOp>>
evalVars == <<evEdges, evSelected, evMeets, evMissing, evPc>>
vars == <<selectedCourses, electiveAssignments, renderedSelected, renderedAssignments,
          pendingAssign, batch, serialSelected, serialAssignments, lastOp,
          evEdges, evSelected, evMeets, evMissing, evPc,
          rankIn, rankOut, resolveIn, resolveOut,
          user, plans, loading, error, inFlight>>
plansVars == <<user, plans, loading, error, inFlight>>
benchVars == <<rankIn, rankOut, resolveIn, resolveOut, plansVars>>

---------------------------------------------------------------------------
(* Characters *)

UpperLetters == {"A", "B", "C", "E", "H", "M", "O", "R", "S", "T"}
Digits == {"0", "1", "2", "3", "4", "5", "6", "7", "8", "9"}

\* String.prototype.toUpperCase on one character
toUpperCase(ch) ==
    CASE ch = "c" -> "C"
      [] ch = "s" -> "S"
      [] ch = "m" -> "M"
      [] ch = "a" -> "A"
      [] ch = "b" -> "B"
      [] ch = "e" -> "E"
      [] OTHER -> ch

\* \s of the regular expression
IsSpace(ch) == ch = " "

\* code.replace(/\s+/g, '').toUpperCase()
normalizeCode(code) ==
    LET stripped == SelectSeq(code, LAMBDA ch : ~IsSpace(ch))
    IN  [i \in 1..Len(stripped) |-> toUpperCase(stripped[i])]

\* source.match(/^[A-Z]+/)?.[0] || 'OTHER'
SubjectOf(source) ==
    LET k == CHOOSE n \in 0..Len(source) :
                 /\ \A i \in 1..n : source[i] \in UpperLetters
                 /\ (n < Len(source) => source[n + 1] \notin UpperLetters)
    IN  IF k = 0 THEN <<"O", "T", "H", "E", "R">> ELSE SubSeq(source, 1, k)

\* source.match(/\d+/)?.[0]; <<>> stands for undefined (no digit in the code)
NumberOf(source) ==
    IF \A i \in 1..Len(source) : source[i] \notin Digits
    THEN <<>>
    ELSE LET first == CHOOSE i \in 1..Len(source) :
                          /\ source[i] \in Digits
                          /\ \A j \in 1..(i - 1) : source[j] \notin Digits
             last == CHOOSE j \in first..Len(source) :
                          /\ \A i \in first..j : source[i] \in Digits
                          /\ (j < Len(source) => source[j + 1] \notin Digits)
         IN  SubSeq(source, first, last)

---------------------------------------------------------------------------
(* JavaScript Map: insertion-ordered, set() on a present key keeps its place *)

MapHas(m, k) == \E i \in 1..Len(m) : m[i].key = k
MapGet(m, k) == m[CHOOSE i \in 1..Len(m) : m[i].key = k].val
MapSet(m, k, v) ==
    IF MapHas(m, k)
    THEN [i \in 1..Len(m) |-> IF m[i].key = k THEN [key |-> k, val |-> v] ELSE m[i]]
    ELSE Append(m, [key |-> k, val |-> v])
\* (map.get(k) || []).push(e); map.set(k, group)
MapPush(m, k, e) ==
    MapSet(m, k, Append(IF MapHas(m, k) THEN MapGet(m, k) ELSE <<>>, e))

---------------------------------------------------------------------------
(* prerequisites.ts *)

\* group_id of an edge that carries none (rawGroupId == null)
NullGroup == <<"null">>

\* edges.filter(target matches after normalization && type === 'PREREQ')
prereqEdges(courseCode, edges) ==
    SelectSeq(edges, LAMBDA edge :
        normalizeCode(edge.target) = normalizeCode(courseCode) /\ edge.type = "PREREQ")

\* isCourseSelected comparing the codes as spelled
isCourseSelected_Exact(code, selection) == code \in selection

\* isCourseSelected: some selected code equals the code after normalization
isCourseSelected(code, selection) ==
    \E selected \in selection : normalizeCode(selected) = normalizeCode(code)

\* the first loop: ANY groups, ALL groups and mandatory edges
RECURSIVE GroupByLogic(_, _)
GroupByLogic(es, acc) ==
    IF es = <<>> THEN acc
    ELSE LET edge == Head(es)
         IN  GroupByLogic(Tail(es),
                IF edge.logic = "ANY" /\ edge.group_id # NullGroup
                THEN [acc EXCEPT !.anyGroups = MapPush(@, edge.group_id, edge)]
                ELSE IF edge.logic = "ALL" /\ edge.group_id # NullGroup
                THEN [acc EXCEPT !.allGroups = MapPush(@, edge.group_id, edge)]
                ELSE [acc EXCEPT !.mandatoryEdges = Append(@, edge)])

\* bySubject: items of one ALL group keyed by subject prefix
RECURSIVE BySubject(_, _)
BySubject(items, m) ==
    IF items = <<>> THEN m
    ELSE BySubject(Tail(items), MapPush(m, SubjectOf(Head(items).source), Head(items)))

\* `_any_${groupIndex}`: the suffix of a derived group key
IndexToken(n) == <<"_any_", ToString(n)>>

\* several subjects: a subject with more than one course becomes an ANY group,
\* a subject with one course stays mandatory
RECURSIVE SplitBySubject(_, _, _, _)
SplitBySubject(entries, groupId, groupIndex, acc) ==
    IF entries = <<>> THEN acc
    ELSE LET subjectItems == Head(entries).val
         IN  IF Len(subjectItems) > 1
             THEN SplitBySubject(Tail(entries), groupId, groupIndex + 1,
                    [acc EXCEPT !.anyGroups =
                        MapSet(@, groupId \o IndexToken(groupIndex), subjectItems)])
             ELSE SplitBySubject(Tail(entries), groupId, groupIndex,
                    [acc EXCEPT !.mandatoryEdges = Append(@, subjectItems[1])])

\* numbers = items.map(source.match(/\d+/)?.[0]).filter(Boolean)
NumbersOf(items) ==
    SelectSeq([i \in 1..Len(items) |-> NumberOf(items[i].source)],
              LAMBDA n : n # <<>>)

\* the second loop over allGroups.entries()
RECURSIVE SplitAllGroups(_, _)
SplitAllGroups(entries, acc) ==
    IF entries = <<>> THEN acc
    ELSE LET groupId == Head(entries).key
             items == Head(entries).val
             bySubject == BySubject(items, <<>>)
             numbers == NumbersOf(items)
             uniqueNumbers == {numbers[i] : i \in 1..Len(numbers)}
         IN  SplitAllGroups(Tail(entries),
                IF Len(items) <= 1
                THEN [acc EXCEPT !.mandatoryEdges = @ \o items]
                ELSE IF Len(bySubject) > 1
                THEN SplitBySubject(bySubject, groupId, 0, acc)
                ELSE IF Len(items) > 2
                THEN IF Cardinality(uniqueNumbers) <= 2 \/ Len(numbers) > 2
                     THEN [acc EXCEPT !.anyGroups =
                              MapSet(@, groupId \o IndexToken(0), items)]
                     ELSE [acc EXCEPT !.mandatoryEdges = @ \o items]
                ELSE [acc EXCEPT !.mandatoryEdges = @ \o items])

\* anyGroups and mandatoryEdges as they stand before the checks
ClassifyEdges(courseCode, edges) ==
    LET first == GroupByLogic(prereqEdges(courseCode, edges),
                    [anyGroups |-> <<>>, allGroups |-> <<>>, mandatoryEdges |-> <<>>])
    IN  SplitAllGroups(first.allGroups, first)

\* GroupSatisfied for a group that must have exactly one selected source
GroupSatisfied_ExactlyOne(groupEdges, selection) ==
    Cardinality({groupEdges[i].source : i \in {j \in 1..Len(groupEdges) :
                     isCourseSelected(groupEdges[j].source, selection)}}) = 1

GroupSatisfied(groupEdges, selection) ==
    \E i \in 1..Len(groupEdges) : isCourseSelected(groupEdges[i].source, selection)

\* meetsPrerequisites with .some for .every over the mandatory edges
meetsPrerequisites_SomeMandatory(courseCode, edges, selection) ==
    IF Len(edges) = 0 THEN TRUE
    ELSE IF Len(prereqEdges(courseCode, edges)) = 0 THEN TRUE
    ELSE LET c == ClassifyEdges(courseCode, edges)
         IN  /\ \/ Len(c.mandatoryEdges) = 0
                \/ \E i \in 1..Len(c.mandatoryEdges) :
                       isCourseSelected(c.mandatoryEdges[i].source, selection)
             /\ \A g \in 1..Len(c.anyGroups) :
                    GroupSatisfied(c.anyGroups[g].val, selection)

meetsPrerequisites(courseCode, edges, selection) ==
    IF Len(edges) = 0 THEN TRUE
    ELSE IF Len(prereqEdges(courseCode, edges)) = 0 THEN TRUE
    ELSE LET c == ClassifyEdges(courseCode, edges)
         IN  /\ \A i \in 1..Len(c.mandatoryEdges) :
                    isCourseSelected(c.mandatoryEdges[i].source, selection)
             /\ \A g \in 1..Len(c.anyGroups) :
                    GroupSatisfied(c.anyGroups[g].val, selection)

SeqIncludes(s, x) == \E i \in 1..Len(s) : s[i] = x

\* PushMissingOnce without the includes() test
PushMissingOnce_NoDedup(groupEdges, missing) ==
    missing \o [i \in 1..Len(groupEdges) |-> groupEdges[i].source]

\* groupEdges.forEach(edge => if (!missing.includes(edge.source)) missing.push(...))
RECURSIVE PushMissingOnce(_, _)
PushMissingOnce(groupEdges, missing) ==
    IF groupEdges = <<>> THEN missing
    ELSE PushMissingOnce(Tail(groupEdges),
            IF SeqIncludes(missing, Head(groupEdges).source)
            THEN missing
            ELSE Append(missing, Head(groupEdges).source))

RECURSIVE MissingOfGroups(_, _, _)
MissingOfGroups(groups, selection, missing) ==
    IF groups = <<>> THEN missing
    ELSE MissingOfGroups(Tail(groups), selection,
            IF GroupSatisfied(Head(groups).val, selection)
            THEN missing
            ELSE PushMissingOnce(Head(groups).val, missing))

\* getMissingPrerequisites without the loop over the ANY groups
getMissingPrerequisites_MandatoryOnly(courseCode, edges, selection) ==
    IF Len(edges) = 0 THEN <<>>
    ELSE IF Len(prereqEdges(courseCode, edges)) = 0 THEN <<>>
    ELSE LET c == ClassifyEdges(courseCode, edges)
             unmet == SelectSeq(c.mandatoryEdges, LAMBDA edge :
                         ~isCourseSelected(edge.source, selection))
         IN  [i \in 1..Len(unmet) |-> unmet[i].source]

getMissingPrerequisites(courseCode, edges, selection) ==
    IF Len(edges) = 0 THEN <<>>
    ELSE IF Len(prereqEdges(courseCode, edges)) = 0 THEN <<>>
    ELSE LET c == ClassifyEdges(courseCode, edges)
             unmet == SelectSeq(c.mandatoryEdges, LAMBDA edge :
                         ~isCourseSelected(edge.source, selection))
             mandatoryMissing == [i \in 1..Len(unmet) |-> unmet[i].source]
         IN  MissingOfGroups(c.anyGroups, selection, mandatoryMissing)

---------------------------------------------------------------------------
(* The catalog handed to the planner (appData): a small program *)

CS1 == <<"C", "S", "1">>
MA1 == <<"M", "A", "1">>
ST1 == <<"S", "T", "1">>
ST2 == <<"S", "T", "2">>
ST3 == <<"S", "T", "3">>
EC1 == <<"E", "C", "1">>
EC2 == <<"E", "C", "2">>

T2A == <<"2", "A">>
T2B == <<"2", "B">>
\* term undefined (or the empty string): `if (term && appData)` skips it
NoTerm == <<>>

\* appData.nodes: credits in millionths of a credit (1.0 credit = 1000000)
Nodes == <<
    [code |-> CS1, credits |-> 1500000],
    [code |-> MA1, credits |-> 1000000],
    [code |-> ST1, credits |-> 500000],
    [code |-> ST2, credits |-> 1000000],
    [code |-> ST3, credits |-> 500000],
    [code |-> EC1, credits |-> 1000000],
    [code |-> EC2, credits |-> 0] >>

\* appData.programLists.course_lists: units as parseFloat reads them
ProgramLists == <<
    << [code |-> <<"E", "C", " ", "2">>, units |-> 500000],
       [code |-> ST1, units |-> 500000] >> >>

\* appData.programInfo.required_by_term
RequiredByTerm(term) ==
    IF term = T2A THEN <<CS1, MA1>> ELSE <<>>

\* appData.courseSets
CourseSets == <<
    [id_hint |-> <<"req_term_", "2", "b", "_any">>, courses |-> <<ST1, ST2>>],
    [id_hint |-> <<"req_term_", "2", "b", "_any", "_2">>, courses |-> <<ST3>>],
    [id_hint |-> <<"list_", "electives">>, courses |-> <<EC1, EC2>>] >>

\* appData.edges
Edges == <<
    [source |-> CS1, target |-> EC1, type |-> "PREREQ", logic |-> "ALL", group_id |-> NullGroup],
    [source |-> ST1, target |-> EC2, type |-> "PREREQ", logic |-> "ANY", group_id |-> <<"1">>],
    [source |-> ST2, target |-> EC2, type |-> "PREREQ", logic |-> "ANY", group_id |-> <<"1">>],
    [source |-> EC2, target |-> EC1, type |-> "COREQ", logic |-> "ALL", group_id |-> NullGroup] >>

---------------------------------------------------------------------------
(* schema.sql *)

\* term_rank keeping the year digit only
term_rank_YearOnly(t) ==
    CASE t[1] = "1" -> 10 [] t[1] = "2" -> 20 [] t[1] = "3" -> 30 [] t[1] = "4" -> 40

\* term_rank(t term_code): the two CASE expressions added
term_rank(t) ==
    (CASE t[1] = "1" -> 10 [] t[1] = "2" -> 20 [] t[1] = "3" -> 30 [] t[1] = "4" -> 40)
    +
    (CASE t[2] = "A" -> 0 [] t[2] = "B" -> 1)

\* CREATE DOMAIN term_code ... CHECK (VALUE ~ '^[1-4][AB]$')
term_code == {<<y, h>> : y \in {"1", "2", "3", "4"}, h \in {"A", "B"}}

\* TermTimeline.tsx: the order in which the timeline lists the terms
termOrder == << <<"1", "A">>, <<"1", "B">>, <<"2", "A">>, <<"2", "B">>,
               <<"3", "A">>, <<"3", "B">>, <<"4", "A">>, <<"4", "B">> >>

---------------------------------------------------------------------------
(* App.tsx *)

\* the ceiling and the tolerance of `> 3.0 + 1e-6`, in millionths of a credit
CreditCeiling == 3000000
CreditTolerance == 1

RECURSIVE SumSeq(_)
SumSeq(s) == IF s = <<>> THEN 0 ELSE Head(s) + SumSeq(Tail(s))

\* the first element of s satisfying Test, as a sequence of at most one element
FindFirst(s, Test(_)) ==
    LET hits == SelectSeq(s, Test) IN IF hits = <<>> THEN <<>> ELSE <<hits[1]>>

Flatten(lists) ==
    LET RECURSIVE Cat(_)
        Cat(ls) == IF ls = <<>> THEN <<>> ELSE Head(ls) \o Cat(Tail(ls))
    IN  Cat(lists)

\* String.prototype.toLowerCase on one character of a term
toLowerCase(ch) ==
    CASE ch = "A" -> "a"
      [] ch = "B" -> "b"
      [] OTHER -> ch

getCourseCredits(courseCode) ==
    LET course == FindFirst(Nodes, LAMBDA node : node.code = courseCode)
        listed == FindFirst(Flatten(ProgramLists), LAMBDA c :
                      normalizeCode(c.code) = normalizeCode(courseCode) /\ c.units > 0)
    IN  IF course # <<>> /\ course[1].credits > 0 THEN course[1].credits
        ELSE IF listed # <<>> THEN listed[1].units
        ELSE 0

\* cs.id_hint.match(new RegExp(`^req_term_${term.toLowerCase()}_any`))
IsAnySetOfTerm(cs, term) ==
    LET prefix == <<"req_term_">> \o [i \in 1..Len(term) |-> toLowerCase(term[i])] \o <<"_any">>
    IN  /\ Len(cs.id_hint) >= Len(prefix)
        /\ SubSeq(cs.id_hint, 1, Len(prefix)) = prefix

anySets(term) == SelectSeq(CourseSets, LAMBDA cs : IsAnySetOfTerm(cs, term))

\* assignments is the electiveAssignments the calling closure holds
computeTermCredits(term, selected, assignments) ==
    LET required == SelectSeq(RequiredByTerm(term), LAMBDA code : code \in selected)
        sets == anySets(term)
        selectedAny == [i \in 1..Len(sets) |->
                           FindFirst(sets[i].courses, LAMBDA code : code \in selected)]
        electives == {code \in DOMAIN assignments :
                          assignments[code] = term /\ code \in selected}
        RECURSIVE SumSet(_)
        SumSet(S) == IF S = {} THEN 0
                     ELSE LET x == CHOOSE y \in S : TRUE
                          IN  getCourseCredits(x) + SumSet(S \ {x})
    IN  SumSeq([i \in 1..Len(required) |-> getCourseCredits(required[i])])
        + SumSeq([i \in 1..Len(sets) |->
                     IF selectedAny[i] = <<>> THEN 0 ELSE getCourseCredits(selectedAny[i][1])])
        + SumSet(electives)

isRequiredCourse(courseCode, term) ==
    \E i \in 1..Len(RequiredByTerm(term)) : RequiredByTerm(term)[i] = courseCode

isAnyRequirement(courseCode, term) ==
    \E i \in 1..Len(anySets(term)) : SeqIncludes(anySets(term)[i].courses, courseCode)

\* a setElectiveAssignments updater applied to an assignment map
ApplyAssign(op, assign) ==
    IF op.kind = "set"
    THEN [c \in (DOMAIN assign) \cup {op.code} |-> IF c = op.code THEN op.term ELSE assign[c]]
    ELSE IF op.kind = "delete"
    THEN [c \in (DOMAIN assign) \ {op.code} |-> assign[c]]
    ELSE assign

RECURSIVE ApplyAssigns(_, _)
ApplyAssigns(ops, assign) ==
    IF ops = <<>> THEN assign ELSE ApplyAssigns(Tail(ops), ApplyAssign(Head(ops), assign))

NoAssign == [kind |-> "none", code |-> <<>>, term |-> NoTerm]

\* SelectUpdater returning next instead of prev where the credit cap rejects
SelectUpdater_KeepsCourseOnReject(prev, assignments, courseCode, term) ==
    IF courseCode \in prev
    THEN [selected |-> prev, assign |-> NoAssign, result |-> "AlreadySelected"]
    ELSE IF term # NoTerm
    THEN IF ~isRequiredCourse(courseCode, term) /\ ~isAnyRequirement(courseCode, term)
         THEN IF computeTermCredits(term, prev, assignments) + getCourseCredits(courseCode)
                    > CreditCeiling + CreditTolerance
              THEN [selected |-> prev \cup {courseCode}, assign |-> NoAssign,
                    result |-> "CreditCapExceeded"]
              ELSE [selected |-> prev \cup {courseCode},
                    assign |-> [kind |-> "set", code |-> courseCode, term |-> term],
                    result |-> "Ok"]
         ELSE [selected |-> prev \cup {courseCode},
               assign |-> [kind |-> "delete", code |-> courseCode, term |-> NoTerm],
               result |-> "Ok"]
    ELSE [selected |-> prev \cup {courseCode}, assign |-> NoAssign, result |-> "Ok"]

\* SelectUpdater rejecting a total that only reaches the ceiling (>= for >)
SelectUpdater_RejectsAtCeiling(prev, assignments, courseCode, term) ==
    IF courseCode \in prev
    THEN [selected |-> prev, assign |-> NoAssign, result |-> "AlreadySelected"]
    ELSE IF term # NoTerm
    THEN IF ~isRequiredCourse(courseCode, term) /\ ~isAnyRequirement(courseCode, term)
         THEN IF computeTermCredits(term, prev, assignments) + getCourseCredits(courseCode)
                    >= CreditCeiling
              THEN [selected |-> prev, assign |-> NoAssign, result |-> "CreditCapExceeded"]
              ELSE [selected |-> prev \cup {courseCode},
                    assign |-> [kind |-> "set", code |-> courseCode, term |-> term],
                    result |-> "Ok"]
         ELSE [selected |-> prev \cup {courseCode},
               assign |-> [kind |-> "delete", code |-> courseCode, term |-> NoTerm],
               result |-> "Ok"]
    ELSE [selected |-> prev \cup {courseCode}, assign |-> NoAssign, result |-> "Ok"]

\* the updater handed to setSelectedCourses by handleCourseSelect: prev is the queued
\* selection, assignments the electiveAssignments of the closure
SelectUpdater(prev, assignments, courseCode, term) ==
    IF courseCode \in prev
    THEN [selected |-> prev, assign |-> NoAssign, result |-> "AlreadySelected"]
    ELSE IF term # NoTerm
    THEN IF ~isRequiredCourse(courseCode, term) /\ ~isAnyRequirement(courseCode, term)
         THEN IF computeTermCredits(term, prev, assignments) + getCourseCredits(courseCode)
                    > CreditCeiling + CreditTolerance
              THEN [selected |-> prev, assign |-> NoAssign, result |-> "CreditCapExceeded"]
              ELSE [selected |-> prev \cup {courseCode},
                    assign |-> [kind |-> "set", code |-> courseCode, term |-> term],
                    result |-> "Ok"]
         ELSE [selected |-> prev \cup {courseCode},
               assign |-> [kind |-> "delete", code |-> courseCode, term |-> NoTerm],
               result |-> "Ok"]
    ELSE [selected |-> prev \cup {courseCode}, assign |-> NoAssign, result |-> "Ok"]

\* SelectOutcome without the prerequisite check
SelectOutcome_NoPrereqCheck(closedSelected, closedAssign, prev, courseCode, term) ==
    SelectUpdater(prev, closedAssign, courseCode, term)

\* handleCourseSelect as a function of the closure (closedSelected, closedAssign) and the
\* queued state (prev, assign): the prerequisite check, then the updater
SelectOutcome(closedSelected, closedAssign, prev, courseCode, term) ==
    IF ~meetsPrerequisites(courseCode, Edges, closedSelected)
    THEN [selected |-> prev, assign |-> NoAssign, result |-> "PrereqNotMet"]
    ELSE SelectUpdater(prev, closedAssign, courseCode, term)

\* DeselectOutcome that forgets the setElectiveAssignments call
DeselectOutcome_KeepsAssignment(prev, courseCode) ==
    [selected |-> prev \ {courseCode}, assign |-> NoAssign, result |-> "Ok"]

\* handleCourseDeselect: both updaters are queued by the handler itself
DeselectOutcome(prev, courseCode) ==
    [selected |-> prev \ {courseCode},
     assign |-> [kind |-> "delete", code |-> courseCode, term |-> NoTerm],
     result |-> "Ok"]

---------------------------------------------------------------------------
(* The planning session *)

\* bounds of the model
MaxBatch == 2
MaxEdges == 3

AllCodes == {CS1, MA1, ST1, ST2, EC1, EC2}

\* the (course, term) pairs the panels hand to onCourseSelect: the timeline's own
\* term for a required or select-one course, a typed term (or none) otherwise
SelectRequests ==
    {<<CS1, T2A>>, <<MA1, T2A>>, <<ST1, T2B>>, <<ST2, T2B>>}
    \cup ({EC1, EC2} \X {NoTerm, T2A, T2B})
    \cup {<<CS1, T2B>>, <<ST1, T2A>>}

\* the plan the calls of the current batch started from, for the run one after the other
SerialBase ==
    IF batch = 0
    THEN [selected |-> selectedCourses, assign |-> electiveAssignments]
    ELSE [selected |-> serialSelected, assign |-> serialAssignments]

Remember(kind, courseCode, term, result) ==
    lastOp' = [kind |-> kind, code |-> courseCode, term |-> term, result |-> result,
               prevSelected |-> selectedCourses, prevAssign |-> electiveAssignments,
               closedSelected |-> renderedSelected, closedAssign |-> renderedAssignments]

\* one call of handleCourseSelect; eager: React runs the updater inside the call
\* (its queue was empty), otherwise when it next renders
SelectCall(courseCode, term, eager) ==
    \E out \in {SelectOutcome(renderedSelected, renderedAssignments,
                              selectedCourses, courseCode, term)},
       base \in {SerialBase} :
    \E ser \in {SelectOutcome(base.selected, base.assign, base.selected, courseCode, term)} :
        /\ selectedCourses' = out.selected
        /\ IF eager \/ out.assign.kind = "none"
           THEN /\ electiveAssignments' = ApplyAssign(out.assign, electiveAssignments)
                /\ UNCHANGED pendingAssign
           ELSE /\ pendingAssign' = Append(pendingAssign, out.assign)
                /\ UNCHANGED electiveAssignments
        /\ serialSelected' = ser.selected
        /\ serialAssignments' = ApplyAssign(ser.assign, base.assign)
        /\ Remember("select", courseCode, term, out.result)

\* one call of handleCourseDeselect
DeselectCall(courseCode) ==
    \E out \in {DeselectOutcome(selectedCourses, courseCode)}, base \in {SerialBase} :
    \E ser \in {DeselectOutcome(base.selected, courseCode)} :
        /\ selectedCourses' = out.selected
        /\ electiveAssignments' = ApplyAssign(out.assign, electiveAssignments)
        /\ UNCHANGED pendingAssign
        /\ serialSelected' = ser.selected
        /\ serialAssignments' = ApplyAssign(ser.assign, base.assign)
        /\ Remember("deselect", courseCode, NoTerm, out.result)

\* React commits: the handlers of the next render close over the new state
Commit ==
    /\ renderedSelected' = selectedCourses'
    /\ renderedAssignments' = electiveAssignments'
    /\ batch' = 0

\* a click: the handler runs and React renders before the next event
HandleCourseSelect(courseCode, term) ==
    /\ SelectCall(courseCode, term, TRUE)
    /\ Commit
    /\ UNCHANGED <<evalVars, benchVars>>

HandleCourseDeselect(courseCode) ==
    /\ DeselectCall(courseCode)
    /\ Commit
    /\ UNCHANGED <<evalVars, benchVars>>

PlanInit ==
    /\ selectedCourses = {RequiredByTerm(T2A)[i] : i \in 1..Len(RequiredByTerm(T2A))}
                         \cup {RequiredByTerm(T2B)[i] : i \in 1..Len(RequiredByTerm(T2B))}
    /\ electiveAssignments = <<>>
    /\ renderedSelected = selectedCourses
    /\ renderedAssignments = electiveAssignments
    /\ pendingAssign = <<>>
    /\ batch = 0
    /\ serialSelected = selectedCourses
    /\ serialAssignments = electiveAssignments
    /\ lastOp = [kind |-> "init", code |-> <<>>, term |-> NoTerm, result |-> "Ok",
                 prevSelected |-> selectedCourses, prevAssign |-> electiveAssignments,
                 closedSelected |-> selectedCourses, closedAssign |-> electiveAssignments]

\* a click while a batch is open: the handler runs again on the same render
QueueCourseSelect(courseCode, term, eager) ==
    /\ batch < MaxBatch
    /\ eager => batch = 0
    /\ SelectCall(courseCode, term, eager)
    /\ batch' = batch + 1
    /\ UNCHANGED <<renderedSelected, renderedAssignments>>
    /\ UNCHANGED <<evalVars, benchVars>>

QueueCourseDeselect(courseCode) ==
    /\ batch < MaxBatch
    /\ DeselectCall(courseCode)
    /\ batch' = batch + 1
    /\ UNCHANGED <<renderedSelected, renderedAssignments>>
    /\ UNCHANGED <<evalVars, benchVars>>

\* React renders: the updaters it had not run yet run now, and their
\* setElectiveAssignments calls land behind those the handlers queued
Render ==
    /\ batch > 0
    /\ electiveAssignments' = ApplyAssigns(pendingAssign, electiveAssignments)
    /\ pendingAssign' = <<>>
    /\ UNCHANGED <<selectedCourses, serialSelected, serialAssignments>>
    /\ Commit
    /\ lastOp' = [lastOp EXCEPT !.kind = "render"]
    /\ UNCHANGED <<evalVars, benchVars>>

---------------------------------------------------------------------------
(* The evaluator on its own: every edge list and selection within the bounds *)

EvTarget == <<"C", "S", "9">>
CS2 == <<"C", "S", "2">>
CS3 == <<"C", "S", "3">>
EvSources == {CS1, CS2, CS3, MA1}
NoTag == [logic |-> "ALL", group_id |-> NullGroup]
AllTag == [logic |-> "ALL", group_id |-> <<"1">>]
AnyTag == [logic |-> "ANY", group_id |-> <<"1">>]
AnyTag2 == [logic |-> "ANY", group_id |-> <<"2">>]
\* (source, tag) of the edges drawn: ungrouped, one ALL group, two ANY groups,
\* with sources shared between them
EvPairs ==
    ({CS1} \X {NoTag})
    \cup (EvSources \X {AllTag})
    \cup ({CS1, CS2, MA1} \X {AnyTag})
    \cup ({MA1} \X {AnyTag2})
EvEdgeChoices ==
    {[source |-> p[1], target |-> EvTarget, type |-> "PREREQ",
      logic |-> p[2].logic, group_id |-> p[2].group_id] : p \in EvPairs}
EvEdgeLists == UNION {[1..n -> EvEdgeChoices] : n \in 0..MaxEdges}

EvalIdle ==
    /\ evEdges = <<>>
    /\ evSelected = {}
    /\ evMeets = TRUE
    /\ evMissing = <<>>
    /\ evPc = "done"

EvalInputs ==
    /\ evEdges \in EvEdgeLists
    /\ evSelected \in SUBSET EvSources
    /\ evMeets = TRUE
    /\ evMissing = <<>>
    /\ evPc = "input"

\* term_rank and the requirement panels have nothing to work on
RankIdle == rankIn = <<>> /\ rankOut = <<>>
NoResolveOut == [pc |-> "idle", termCourses |-> <<>>, isFulfilled |-> FALSE, error |-> "none"]
ResolveIdle == resolveIn = <<>> /\ resolveOut = NoResolveOut
\* usePlans on its first render for a signed-out visitor, once its effect has run
NoUser == "none"
PlansIdle ==
    /\ user = NoUser
    /\ plans = <<>>
    /\ loading = FALSE
    /\ error = FALSE
    /\ inFlight = <<>>
BenchIdle == RankIdle /\ ResolveIdle /\ PlansIdle

Evaluate ==
    /\ evPc = "input"
    /\ evMeets' = meetsPrerequisites(EvTarget, evEdges, evSelected)
    /\ evMissing' = getMissingPrerequisites(EvTarget, evEdges, evSelected)
    /\ evPc' = "done"
    /\ UNCHANGED <<evEdges, evSelected>>
    /\ UNCHANGED <<planVars, benchVars>>

Init == PlanInit /\ EvalIdle /\ BenchIdle

Next ==
    \/ \E req \in SelectRequests : HandleCourseSelect(req[1], req[2])
    \/ \E courseCode \in AllCodes : HandleCourseDeselect(courseCode)

Spec == Init /\ [][Next]_vars

\* the handlers called more than once on one render
BatchRequests == {<<EC1, T2A>>, <<EC2, T2A>>, <<CS1, T2A>>, <<ST1, T2B>>, <<EC1, NoTerm>>}
BatchCodes == {CS1, ST1, EC1, EC2}

NextBatch ==
    \/ \E req \in BatchRequests, eager \in BOOLEAN : QueueCourseSelect(req[1], req[2], eager)
    \/ \E courseCode \in BatchCodes : QueueCourseDeselect(courseCode)
    \/ Render

SpecBatch == Init /\ [][NextBatch]_vars

InitEval == PlanInit /\ EvalInputs /\ BenchIdle

SpecEval == InitEval /\ [][Evaluate]_vars

---------------------------------------------------------------------------
(* Reference notions the properties are stated with *)

\* the relation of section 4.2 read off the edges as tagged: every ungrouped or
\* ALL-tagged source is selected, and every ANY group has a selected alternative
StructuralSatisfied(courseCode, edges, selection) ==
    LET es == prereqEdges(courseCode, edges)
        IsAlt(e) == e.logic = "ANY" /\ e.group_id # NullGroup
    IN  \A i \in 1..Len(es) :
            IF IsAlt(es[i])
            THEN \E j \in 1..Len(es) :
                    /\ IsAlt(es[j])
                    /\ es[j].group_id = es[i].group_id
                    /\ isCourseSelected(es[j].source, selection)
            ELSE isCourseSelected(es[i].source, selection)

SeqToSet(s) == {s[i] : i \in 1..Len(s)}

CreditsOfSet(S) ==
    LET RECURSIVE Sum(_)
        Sum(R) == IF R = {} THEN 0
                  ELSE LET x == CHOOSE y \in R : TRUE IN getCourseCredits(x) + Sum(R \ {x})
    IN  Sum(S)

\* the term's credit total: selected required courses, the first selected member
\* of the term's select-one set, and the selected electives assigned to the term
TermTotal(term, selection, assign) ==
    LET required == SeqToSet(RequiredByTerm(term)) \cap selection
        sets == anySets(term)
        chosen == {c \in AllCodes : \E i \in 1..Len(sets) :
                      \E k \in 1..Len(sets[i].courses) :
                          /\ sets[i].courses[k] = c
                          /\ c \in selection
                          /\ \A j \in 1..(k - 1) : sets[i].courses[j] \notin selection}
        electives == {c \in DOMAIN assign : assign[c] = term /\ c \in selection}
    IN  CreditsOfSet(required) + CreditsOfSet(chosen) + CreditsOfSet(electives)

Rejected == lastOp.kind = "select" /\ lastOp.result \in {"PrereqNotMet", "CreditCapExceeded"}
Added == lastOp.kind = "select" /\ lastOp.code \in selectedCourses \ lastOp.prevSelected

---------------------------------------------------------------------------
(* Properties *)

\* C1: a select request that is rejected (PrereqNotMet or CreditCapExceeded) leaves
\* the selection and the elective assignments exactly as they were before the call.
C1_RejectionLeavesPlanUnchanged ==
    Rejected => /\ selectedCourses = lastOp.prevSelected
                /\ electiveAssignments = lastOp.prevAssign

C1_Witness ==
    /\ Rejected
    /\ lastOp.result = "CreditCapExceeded"
    /\ DOMAIN electiveAssignments # {}

\* C2: with requests applied one at a time, a select request adds the course only if
\* its prerequisite relation is satisfied by the selection at the moment of the call;
\* if it is not, the request ends PrereqNotMet and the course is not added.
C2_AddedOnlyWithPrerequisites ==
    lastOp.kind = "select" =>
        /\ Added => StructuralSatisfied(lastOp.code, Edges, lastOp.prevSelected)
        /\ ~StructuralSatisfied(lastOp.code, Edges, lastOp.prevSelected) =>
               /\ lastOp.result = "PrereqNotMet"
               /\ ~Added

C2_Witness ==
    /\ lastOp.kind = "select"
    /\ lastOp.result = "PrereqNotMet"
    /\ lastOp.code = EC2
    /\ EC1 \in selectedCourses

\* a free-elective placement: a term is given, the prerequisites are met, the course
\* is not yet selected and is neither required in the term nor in its select-one set
FreePlacement ==
    /\ lastOp.kind = "select"
    /\ lastOp.term # NoTerm
    /\ lastOp.code \notin lastOp.prevSelected
    /\ StructuralSatisfied(lastOp.code, Edges, lastOp.prevSelected)
    /\ lastOp.code \notin SeqToSet(RequiredByTerm(lastOp.term))
    /\ \A i \in 1..Len(anySets(lastOp.term)) :
           lastOp.code \notin SeqToSet(anySets(lastOp.term)[i].courses)

\* C3: a free-elective placement into term T is rejected with CreditCapExceeded exactly
\* when T's credit total plus the course's credits is greater than the ceiling; a total
\* that reaches the ceiling exactly is accepted, and an accepted course is selected and
\* assigned to T.
C3_CapRejectsExactlyAboveCeiling ==
    FreePlacement =>
        LET total == TermTotal(lastOp.term, lastOp.prevSelected, lastOp.prevAssign)
                     + getCourseCredits(lastOp.code)
        IN  /\ (lastOp.result = "CreditCapExceeded") <=> (total > CreditCeiling)
            /\ total <= CreditCeiling =>
                   /\ lastOp.code \in selectedCourses
                   /\ lastOp.code \in DOMAIN electiveAssignments
                   /\ electiveAssignments[lastOp.code] = lastOp.term

\* 2.5 credits of required selections in 2A and a 1.0-credit elective: rejected
C3_Witness ==
    /\ FreePlacement
    /\ lastOp.code = EC1
    /\ lastOp.term = T2A
    /\ getCourseCredits(EC1) = 1000000
    /\ TermTotal(T2A, lastOp.prevSelected, lastOp.prevAssign) = 2500000
    /\ lastOp.prevAssign = <<>>
    /\ lastOp.result = "CreditCapExceeded"

\* a placement that brings the term exactly to the ceiling is reached and accepted
C3_AtCeilingAccepted ==
    /\ FreePlacement
    /\ TermTotal(lastOp.term, lastOp.prevSelected, lastOp.prevAssign)
           + getCourseCredits(lastOp.code) = CreditCeiling
    /\ lastOp.result = "Ok"

\* C5: deselectCourse always succeeds: afterwards the course is neither selected nor
\* assigned to a term, and every other course keeps its selection and its assignment
\* (dependents whose prerequisites are no longer met stay selected).
C5_DeselectRemovesOnlyThatCourse ==
    lastOp.kind = "deselect" =>
        /\ lastOp.result = "Ok"
        /\ lastOp.code \notin selectedCourses
        /\ lastOp.code \notin DOMAIN electiveAssignments
        /\ selectedCourses \ {lastOp.code} = lastOp.prevSelected \ {lastOp.code}
        /\ DOMAIN electiveAssignments = (DOMAIN lastOp.prevAssign) \ {lastOp.code}
        /\ \A c \in DOMAIN electiveAssignments : electiveAssignments[c] = lastOp.prevAssign[c]

\* an assigned course is deselected and a dependent of it stays selected
C5_Witness ==
    /\ lastOp.kind = "deselect"
    /\ lastOp.code = CS1
    /\ CS1 \in DOMAIN lastOp.prevAssign
    /\ EC1 \in selectedCourses
    /\ ~StructuralSatisfied(EC1, Edges, selectedCourses)

\* C4: requests issued back to back on one render are serialized: once React has
\* rendered, the plan equals the plan the same requests give run one after the other.
C4_BackToBackEqualsSerial ==
    (lastOp.kind = "render" /\ batch = 0) =>
        /\ selectedCourses = serialSelected
        /\ electiveAssignments = serialAssignments

Terms == {T2A, T2B}

\* the terms a selected course sits in: where the program requires it, where it is
\* a select-one member, and where it is assigned as an elective
PlacedTerms(c, assign) ==
    {t \in Terms : isRequiredCourse(c, t) \/ isAnyRequirement(c, t)}
    \cup (IF c \in DOMAIN assign THEN {assign[c]} ELSE {})

\* the selected courses that may supply a prerequisite of a course placed in term
SuppliersBefore(term, selection, assign) ==
    {c \in selection :
        \/ PlacedTerms(c, assign) = {}
        \/ \E t \in PlacedTerms(c, assign) : term_rank(t) < term_rank(term)}

\* C6: selectCourse(code, T) accepts only if the prerequisite relation is satisfied by
\* courses of a strictly earlier term than T or with no declared term.
C6_PrereqOnlyFromEarlierTerms ==
    (Added /\ lastOp.term # NoTerm) =>
        StructuralSatisfied(lastOp.code, Edges,
            SuppliersBefore(lastOp.term, lastOp.prevSelected, lastOp.prevAssign))

\* C7: selectCourse(code, T) accepts only if every corequisite companion of code is
\* selected (in T or elsewhere); a companion selected in no term leaves it unsatisfied.
C7_CoreqCheckedOnSelect ==
    (Added /\ lastOp.term # NoTerm) =>
        \A i \in 1..Len(Edges) :
            (Edges[i].type = "COREQ"
                /\ normalizeCode(Edges[i].target) = normalizeCode(lastOp.code))
            => isCourseSelected(Edges[i].source, lastOp.prevSelected)

---------------------------------------------------------------------------
(* Properties of the evaluator *)

EvIsSelected(code) == isCourseSelected(code, evSelected)

\* every edge is tagged ALL under the one group id
OneAllGroup ==
    /\ Len(evEdges) >= 1
    /\ \A i \in 1..Len(evEdges) : evEdges[i].logic = "ALL" /\ evEdges[i].group_id = <<"1">>

\* C8: a relation All(children) of leaf children (edges tagged ALL under one group id)
\* is satisfied iff every child course is in the selection.
C8_AllNeedsEveryChild ==
    (evPc = "done" /\ OneAllGroup) =>
        (evMeets <=> \A i \in 1..Len(evEdges) : EvIsSelected(evEdges[i].source))

\* C9: a two-child All([a, b]) is satisfied iff a alone is satisfied and b alone is
\* satisfied, whether a and b share a subject prefix or not.
C9_TwoChildAllIsConjunction ==
    (evPc = "done" /\ OneAllGroup /\ Len(evEdges) = 2) =>
        (evMeets <=> /\ meetsPrerequisites(EvTarget, <<evEdges[1]>>, evSelected)
                     /\ meetsPrerequisites(EvTarget, <<evEdges[2]>>, evSelected))

C9_Witness ==
    /\ evPc = "done"
    /\ OneAllGroup
    /\ Len(evEdges) = 2
    /\ SubjectOf(evEdges[1].source) # SubjectOf(evEdges[2].source)
    /\ evMeets

\* the same with two children of one subject, one of them not selected
C9_SameSubjectRejected ==
    /\ evPc = "done"
    /\ OneAllGroup
    /\ Len(evEdges) = 2
    /\ evEdges[1].source # evEdges[2].source
    /\ SubjectOf(evEdges[1].source) = SubjectOf(evEdges[2].source)
    /\ EvIsSelected(evEdges[1].source)
    /\ ~evMeets

\* ids of the groups tagged ANY in the evaluated relation
EvAnyGroupIds ==
    {evEdges[i].group_id : i \in {j \in 1..Len(evEdges) : evEdges[j].logic = "ANY"}}

InAnyGroup(e, g) == e.logic = "ANY" /\ e.group_id = g

\* the alternatives of group g, in declaration order
Alternatives(g) ==
    LET es == SelectSeq(evEdges, LAMBDA e : InAnyGroup(e, g))
    IN  [i \in 1..Len(es) |-> es[i].source]

\* the relation without group g
WithoutGroup(g) == SelectSeq(evEdges, LAMBDA e : ~InAnyGroup(e, g))

AnyGroupSatisfied(g) ==
    \E i \in 1..Len(Alternatives(g)) : EvIsSelected(Alternatives(g)[i])

Occurrences(x, s) == Cardinality({i \in 1..Len(s) : s[i] = x})

FirstIndex(x, s) == CHOOSE i \in 1..Len(s) : s[i] = x /\ \A j \in 1..(i - 1) : s[j] # x

\* the courses of alts appear in missing once each, in the order of alts
ListedOnceInOrder(alts, missing) ==
    /\ \A i \in 1..Len(alts) : Occurrences(alts[i], missing) = 1
    /\ \A i, j \in 1..Len(alts) :
           (FirstIndex(alts[i], alts) < FirstIndex(alts[j], alts)) =>
               (FirstIndex(alts[i], missing) < FirstIndex(alts[j], missing))

\* course x is also named by an edge outside group g
NamedOutside(x, g) ==
    \E j \in 1..Len(evEdges) : ~InAnyGroup(evEdges[j], g) /\ evEdges[j].source = x

\* the alternatives of g that no edge outside g names
OwnAlternatives(g) == SelectSeq(Alternatives(g), LAMBDA x : ~NamedOutside(x, g))

\* a relation that is one Any group only
OneAnyGroup ==
    /\ Len(evEdges) >= 1
    /\ \A i \in 1..Len(evEdges) : InAnyGroup(evEdges[i], <<"1">>)

AnySatisfiedIffOneSelected ==
    /\ OneAnyGroup => (evMeets <=> AnyGroupSatisfied(<<"1">>))
    /\ \A g \in EvAnyGroupIds : evMeets => AnyGroupSatisfied(g)

SatisfiedAnyAddsNothing ==
    \A g \in EvAnyGroupIds :
        AnyGroupSatisfied(g) =>
            evMissing = getMissingPrerequisites(EvTarget, WithoutGroup(g), evSelected)

\* C10: an Any group is satisfied iff at least one alternative is selected; a satisfied
\* group adds nothing to the missing list; an unsatisfied group has every alternative in
\* the missing list exactly once, in declaration order.
C10_AnyGroupMissing ==
    evPc = "done" =>
        /\ AnySatisfiedIffOneSelected
        /\ SatisfiedAnyAddsNothing
        /\ \A g \in EvAnyGroupIds :
               ~AnyGroupSatisfied(g) => ListedOnceInOrder(Alternatives(g), evMissing)

\* C10 (amended): as C10, except that of an unsatisfied group the missing list contains
\* every alternative at least once, and exactly once and in declaration order those
\* alternatives that no edge outside the group names.
C10_AnyGroupMissing_Amended ==
    evPc = "done" =>
        /\ AnySatisfiedIffOneSelected
        /\ SatisfiedAnyAddsNothing
        /\ \A g \in EvAnyGroupIds :
               ~AnyGroupSatisfied(g) =>
                   /\ \A i \in 1..Len(Alternatives(g)) :
                          SeqIncludes(evMissing, Alternatives(g)[i])
                   /\ ListedOnceInOrder(OwnAlternatives(g), evMissing)

\* ALL(CS1, ANY(MA1, CS2)) with CS1 selected: missing is MA1, CS2
C10_Witness ==
    /\ evPc = "done"
    /\ Len(evEdges) = 3
    /\ evEdges[1].source = CS1 /\ evEdges[1].logic = "ALL"
    /\ InAnyGroup(evEdges[2], <<"1">>) /\ evEdges[2].source = MA1
    /\ InAnyGroup(evEdges[3], <<"1">>) /\ evEdges[3].source = CS2
    /\ evSelected = {CS1}
    /\ ~evMeets
    /\ evMissing = <<MA1, CS2>>

\* C11: the prerequisite check fails iff the list of missing prerequisites is not
\* empty, for every edge list and selection.
C11_FailsIffMissingNonEmpty ==
    evPc = "done" => (~evMeets <=> evMissing # <<>>)

\* an unsatisfied ANY group is the only reason of the failure
C11_Witness ==
    /\ evPc = "done"
    /\ ~evMeets
    /\ evMissing # <<>>
    /\ \E g \in EvAnyGroupIds : ~AnyGroupSatisfied(g)
    /\ \A i \in 1..Len(evEdges) :
           evEdges[i].logic = "ALL" => EvIsSelected(evEdges[i].source)

\* the course is required in some term or a member of some term's select-one set
IsFixedRequirement(c) ==
    \E t \in Terms : isRequiredCourse(c, t) \/ isAnyRequirement(c, t)

\* C12: after any sequence of select and deselect calls, no course of the program's fixed
\* per-term requirement (required in a term, or in a term's select-one set) carries an
\* elective-term assignment.
C12_NoAssignmentForFixedRequirement ==
    \A c \in DOMAIN electiveAssignments : ~IsFixedRequirement(c)

\* the per-term ceilings a catalog may configure (appData.constraints), in millionths
ConfiguredCeilings == {2000000, 2500000, 3000000, 3500000}

\* C13: the ceiling enforced on a free-elective placement is the configured one: for
\* every configured ceiling, the placement is rejected exactly when the term's total
\* plus the course's credits is greater than that ceiling.
C13_CeilingIsConfigured ==
    \A ceiling \in ConfiguredCeilings :
        FreePlacement =>
            ((lastOp.result = "CreditCapExceeded") <=>
                (TermTotal(lastOp.term, lastOp.prevSelected, lastOp.prevAssign)
                    + getCourseCredits(lastOp.code) > ceiling))

---------------------------------------------------------------------------
(* term_rank on its own: every pair of valid term codes *)

RankInputs == rankIn \in term_code \X term_code /\ rankOut = <<>>

RankTerms ==
    /\ rankIn # <<>>
    /\ rankOut = <<>>
    /\ rankOut' = <<term_rank(rankIn[1]), term_rank(rankIn[2])>>
    /\ UNCHANGED <<rankIn, resolveIn, resolveOut, plansVars>>
    /\ UNCHANGED <<planVars, evalVars>>

InitRank == PlanInit /\ EvalIdle /\ RankInputs /\ ResolveIdle /\ PlansIdle

SpecRank == InitRank /\ [][RankTerms]_vars

YearOf(t) == CHOOSE y \in 1..4 : ToString(y) = t[1]
HalfOf(t) == IF t[2] = "A" THEN 0 ELSE 1
PlaceInOrder(t) == CHOOSE i \in 1..Len(termOrder) : termOrder[i] = t

\* C14: for valid term codes the rank is 10 * year + (0 for A, 1 for B); two different
\* codes have different ranks, and the rank grows strictly along the order 1A, 1B, ...,
\* 4B in which the timeline lists the terms.
C14_RankFollowsTermOrder ==
    rankOut # <<>> =>
        /\ rankOut[1] = 10 * YearOf(rankIn[1]) + HalfOf(rankIn[1])
        /\ rankIn[1] # rankIn[2] => rankOut[1] # rankOut[2]
        /\ (PlaceInOrder(rankIn[1]) < PlaceInOrder(rankIn[2])) <=> (rankOut[1] < rankOut[2])

C14_Witness ==
    /\ rankIn = << <<"1", "B">>, <<"2", "A">> >>
    /\ rankOut = <<11, 20>>

---------------------------------------------------------------------------
(* RequirementBoxes.tsx: the course lists of the program *)

\* Object.keys(programLists.course_lists), in the order of ProgramLists
CourseListNames == <<"Additional Requirements">>

\* requirementCounts[listName] || 1
requiredCount(listName) ==
    CASE listName = "Undergraduate Communication Requirement" -> 1
      [] listName = "Natural Science List" -> 3
      [] listName = "Technical Electives List" -> 4
      [] listName = "Additional Requirements" -> 1
      [] OTHER -> 1

\* codes = courses.map(c => normalizeCode(c.code))
listCodes(k) == [i \in 1..Len(ProgramLists[k]) |-> normalizeCode(ProgramLists[k][i].code)]

\* codes.filter(code => selectedCourses.has(code)).length
selectedCount(k, selection) ==
    Cardinality({i \in 1..Len(listCodes(k)) : listCodes(k)[i] \in selection})

isFulfilled(k, selection) == selectedCount(k, selection) >= requiredCount(CourseListNames[k])

\* a code as typed into the elective prompt: trimmed and uppercased, inner space kept
EC2Typed == <<"E", "C", " ", "2">>

\* requests on the members of the lists: the boxes pass the normalized code and the
\* prompted term (or none), the timeline the select-one course or the typed code
ListRequests ==
    {<<EC2, NoTerm>>, <<EC2, T2B>>, <<ST1, NoTerm>>, <<ST1, T2B>>, <<ST2, T2B>>,
     <<EC2Typed, T2B>>, <<EC2Typed, T2A>>}
ListCodes == {EC2, EC2Typed, ST1, ST2, CS1}

NextLists ==
    \/ \E req \in ListRequests : HandleCourseSelect(req[1], req[2])
    \/ \E courseCode \in ListCodes : HandleCourseDeselect(courseCode)

SpecLists == Init /\ [][NextLists]_vars

\* the member courses of list k that the selection holds, codes compared normalized
MembersSelected(k, selection) ==
    {c \in SeqToSet(listCodes(k)) : isCourseSelected(c, selection)}

\* C15: a requirement list with required count n is fulfilled iff at least n of its
\* member courses are selected, and a select call never turns a fulfilled list into
\* an unfulfilled one.
C15_ListFulfilledIffCountReached ==
    \A k \in 1..Len(ProgramLists) :
        /\ isFulfilled(k, selectedCourses) <=>
               (Cardinality(MembersSelected(k, selectedCourses))
                    >= requiredCount(CourseListNames[k]))
        /\ lastOp.kind = "select" =>
               (isFulfilled(k, lastOp.prevSelected) => isFulfilled(k, selectedCourses))

---------------------------------------------------------------------------
(* TermCourseList and the requirement boxes over course sets: a requirement whose
   content names a course set *)

\* courseSetMap.get(courseSetId): the last set carrying the id, <<>> for undefined
courseSetMapGet(courseSets, courseSetId) ==
    LET hits == SelectSeq(courseSets, LAMBDA cs : cs.id_hint = courseSetId)
    IN  IF hits = <<>> THEN <<>> ELSE <<hits[Len(hits)]>>

\* courseSet ? courseSet.courses.map(code => courseMap.get(code)).filter(Boolean) : []
\* (the nodes found, named by their codes)
termCoursesOf(in) ==
    LET courseSet == courseSetMapGet(in.courseSets, in.requirement.content)
    IN  IF courseSet = <<>> THEN <<>>
        ELSE SelectSeq(courseSet[1].courses, LAMBDA code : code \in in.courses)

isRequirementFulfilled(in) ==
    LET courseSet == courseSetMapGet(in.courseSets, in.requirement.content)
    IN  IF courseSet = <<>> THEN FALSE
        ELSE IF in.requirement.type = "ALL"
        THEN \A i \in 1..Len(courseSet[1].courses) : courseSet[1].courses[i] \in in.selected
        ELSE IF in.requirement.type = "ANY"
        THEN \E i \in 1..Len(courseSet[1].courses) : courseSet[1].courses[i] \in in.selected
        ELSE FALSE

\* a term requirement of the program plan, its content one of the ids of the catalog's
\* sets or an id no set carries
DanglingSetId == <<"req_term_", "3", "a">>
ResolveContents == {CourseSets[i].id_hint : i \in 1..Len(CourseSets)} \cup {DanglingSetId}
ResolveRequirements ==
    {[id |-> <<"req_term_", "x">>, type |-> type, content |-> content] :
        type \in {"ALL", "ANY"}, content \in ResolveContents}

ResolveInputs ==
    /\ resolveIn \in {[courseSets |-> CourseSets, courses |-> courses,
                       requirement |-> requirement, selected |-> selected] :
                         courses \in SUBSET {ST1, ST2, EC1, EC2},
                         requirement \in ResolveRequirements,
                         selected \in SUBSET {ST1, ST2}}
    /\ resolveOut = [NoResolveOut EXCEPT !.pc = "input"]

\* the panels render: neither path throws, a set that is not found reads as no courses
ResolveRequirement ==
    /\ resolveOut.pc = "input"
    /\ resolveOut' = [pc |-> "done",
                      termCourses |-> termCoursesOf(resolveIn),
                      isFulfilled |-> isRequirementFulfilled(resolveIn),
                      error |-> "none"]
    /\ UNCHANGED <<resolveIn, rankIn, rankOut, plansVars>>
    /\ UNCHANGED <<planVars, evalVars>>

InitResolve == PlanInit /\ EvalIdle /\ RankIdle /\ ResolveInputs /\ PlansIdle

SpecResolve == InitResolve /\ [][ResolveRequirement]_vars

Resolved == courseSetMapGet(resolveIn.courseSets, resolveIn.requirement.content)

\* C16: a requirement whose course-set id resolves to no course set yields a
\* ConfigurationError; it is not evaluated as an unsatisfied or empty requirement.
C16_DanglingSetIsConfigurationError ==
    (resolveOut.pc = "done" /\ Resolved = <<>>) => resolveOut.error = "ConfigurationError"

\* C17: resolving an explicit course set returns exactly its declared members in the
\* declared order, also when a member is absent from the catalog's course list.
C17_ExplicitSetResolvesToMembers ==
    (resolveOut.pc = "done" /\ Resolved # <<>>) =>
        resolveOut.termCourses = Resolved[1].courses

---------------------------------------------------------------------------
(* The missing list of section 4.2, read off the edges in their declared order *)

\* s without the later occurrences of its elements
RECURSIVE DedupFirst(_, _)
DedupFirst(s, acc) ==
    IF s = <<>> THEN acc
    ELSE DedupFirst(Tail(s), IF SeqIncludes(acc, Head(s)) THEN acc ELSE Append(acc, Head(s)))

IsAlternative(e) == e.logic = "ANY" /\ e.group_id # NullGroup

\* the children in declared order: a course of its own, or an Any group standing where
\* its first edge stands; each unsatisfied child adds its own missing list
RECURSIVE ChildrenMissing(_, _, _, _)
ChildrenMissing(es, seen, edges, selection) ==
    IF es = <<>> THEN <<>>
    ELSE LET e == Head(es)
             group == SelectSeq(edges, LAMBDA x : IsAlternative(x) /\ x.group_id = e.group_id)
             alts == [i \in 1..Len(group) |-> group[i].source]
         IN  IF IsAlternative(e)
             THEN IF e.group_id \in seen
                  THEN ChildrenMissing(Tail(es), seen, edges, selection)
                  ELSE (IF \E i \in 1..Len(alts) : isCourseSelected(alts[i], selection)
                        THEN <<>> ELSE DedupFirst(alts, <<>>))
                       \o ChildrenMissing(Tail(es), seen \cup {e.group_id}, edges, selection)
             ELSE (IF isCourseSelected(e.source, selection) THEN <<>> ELSE <<e.source>>)
                  \o ChildrenMissing(Tail(es), seen, edges, selection)

\* the children are courses of their own and Any groups only
LeavesAndAnyGroups ==
    \A i \in 1..Len(evEdges) : IsAlternative(evEdges[i]) \/ evEdges[i].group_id = NullGroup

\* no course is named by two edges
DistinctSources ==
    \A i, j \in 1..Len(evEdges) : evEdges[i].source = evEdges[j].source => i = j

\* C18: for an All relation over single mandatory courses and Any groups (no course
\* named twice), the missing list is the concatenation, in declared edge order, of each
\* unsatisfied child's missing list.
C18_MissingInDeclaredChildOrder ==
    (evPc = "done" /\ LeavesAndAnyGroups /\ DistinctSources) =>
        evMissing = ChildrenMissing(evEdges, {}, evEdges, evSelected)

\* the edges and the selection with the prerequisite courses renamed by r
RenameEdges(r, edges) == [i \in 1..Len(edges) |-> [edges[i] EXCEPT !.source = r[@]]]
RenameSelection(r, selection) == {r[c] : c \in selection}

\* C19: evaluation is structural: renaming the prerequisite courses by an injective
\* renaming, in the edges and in the selection alike, never changes the satisfied
\* result (an ALL edge is not re-read as an alternative for its subject or number).
C19_RenamingKeepsSatisfied ==
    evPc = "done" =>
        \A r \in Permutations(EvSources) :
            meetsPrerequisites(EvTarget, RenameEdges(r, evEdges),
                               RenameSelection(r, evSelected)) = evMeets

---------------------------------------------------------------------------
(* A single mandatory prerequisite, the codes spelled in several ways *)

\* spellings and the course each of them names
SpellingsOfCS1 == {CS1, <<"c", "s", "1">>, <<"C", "S", " ", "1">>, <<" ", "c", "s", " ", "1", " ">>}
SpellingsOfMA1 == {MA1, <<"m", "a", " ", "1">>}
SpellingsOfCS9 == {EvTarget, <<"c", "s", " ", "9">>}
CS11 == <<"C", "S", "1", "1">>
CourseOf(spelling) ==
    IF spelling \in SpellingsOfCS1 THEN "CS1"
    ELSE IF spelling \in SpellingsOfMA1 THEN "MA1"
    ELSE IF spelling \in SpellingsOfCS9 THEN "CS9"
    ELSE "CS11"

LeafInputs ==
    /\ evEdges \in {<<[source |-> source, target |-> target, type |-> "PREREQ",
                       logic |-> "ALL", group_id |-> NullGroup]>> :
                        source \in SpellingsOfCS1 \cup {MA1},
                        target \in SpellingsOfCS9}
    /\ evSelected \in SUBSET (SpellingsOfCS1 \cup SpellingsOfMA1 \cup {CS11})
    /\ evMeets = TRUE
    /\ evMissing = <<>>
    /\ evPc = "input"

InitLeaf == PlanInit /\ LeafInputs /\ BenchIdle

SpecLeaf == InitLeaf /\ [][Evaluate]_vars

\* C20: a single mandatory prerequisite c is satisfied iff some selected code names the
\* same course as c once whitespace is stripped and the letters uppercased, whatever
\* the spelling; its missing list is empty when satisfied and [c] otherwise.
C20_LeafSatisfiedUpToSpelling ==
    (evPc = "done" /\ Len(evEdges) = 1) =>
        /\ evMeets <=> \E selected \in evSelected :
                           CourseOf(selected) = CourseOf(evEdges[1].source)
        /\ evMissing = IF evMeets THEN <<>> ELSE <<evEdges[1].source>>

\* the prerequisite spelled "cs 1" is met by the selection holding "CS1"
C20_Witness ==
    /\ evPc = "done"
    /\ evEdges[1].source = <<" ", "c", "s", " ", "1", " ">>
    /\ evSelected = {CS1, CS11}
    /\ evMeets
    /\ evMissing = <<>>

---------------------------------------------------------------------------
(* The term prompt of the requirement boxes *)

\* String.prototype.trim
RECURSIVE trimStart(_)
trimStart(s) == IF s # <<>> /\ IsSpace(Head(s)) THEN trimStart(Tail(s)) ELSE s
RECURSIVE trimEnd(_)
trimEnd(s) ==
    IF s # <<>> /\ IsSpace(s[Len(s)]) THEN trimEnd(SubSeq(s, 1, Len(s) - 1)) ELSE s
trim(s) == trimEnd(trimStart(s))

\* term = input ? input.trim().toUpperCase() : undefined; an empty term is falsy in
\* `if (term && appData)` as undefined is
promptTerm(input) ==
    IF input = <<>> THEN NoTerm
    ELSE [i \in 1..Len(trim(input)) |-> toUpperCase(trim(input)[i])]

\* what the user may type into window.prompt (<<>>: cancelled or left empty)
PromptInputs ==
    {<<>>, <<"2", "B">>, <<"2", "b">>, <<" ", "2", "a", " ">>, <<"5", "c">>, <<"2", " ", "B">>}

\* the courses the boxes list: the normalized codes of the program's lists
BoxCodes == UNION {SeqToSet(listCodes(k)) : k \in 1..Len(ProgramLists)}

\* the Select / Deselect button of a listed course, and the timeline's select-one buttons
NextPrompt ==
    \/ \E courseCode \in BoxCodes, input \in PromptInputs :
           HandleCourseSelect(courseCode, promptTerm(input))
    \/ \E courseCode \in {ST1, ST2} : HandleCourseSelect(courseCode, T2B)
    \/ \E courseCode \in BoxCodes \cup {ST2} : HandleCourseDeselect(courseCode)

SpecPrompt == Init /\ [][NextPrompt]_vars

\* C21: in every reachable plan each term stored in the elective assignments matches
\* the pattern [1-4][AB].
C21_AssignedTermsAreTermCodes ==
    \A c \in DOMAIN electiveAssignments : electiveAssignments[c] \in term_code

\* C22: in every reachable plan the selected codes are unique up to normalization: no
\* two selected entries are equal after stripping whitespace and uppercasing.
C22_SelectionUniqueUpToSpelling ==
    \A a, b \in selectedCourses : normalizeCode(a) = normalizeCode(b) => a = b

\* what a select-one set adds to a term's total: the credits of its first selected
\* member in declared order, nothing when no member is selected
SetShare(cs, selection) ==
    LET picked == {k \in 1..Len(cs.courses) :
                      /\ cs.courses[k] \in selection
                      /\ \A j \in 1..(k - 1) : cs.courses[j] \notin selection}
    IN  IF picked = {} THEN 0 ELSE getCourseCredits(cs.courses[CHOOSE k \in picked : TRUE])

\* the part of a term's total that comes from its select-one sets
SelectOneCredits(term, selection, assign) ==
    computeTermCredits(term, selection, assign)
    - CreditsOfSet(SeqToSet(RequiredByTerm(term)) \cap selection)
    - CreditsOfSet({c \in DOMAIN assign : assign[c] = term /\ c \in selection})

---------------------------------------------------------------------------
(* TermTimeline.tsx: the credit total a term box displays *)

\* creditsFallback: keyed by the normalized list code, a later entry replaces an earlier one
creditsFallback ==
    LET entries == Flatten(ProgramLists)
        RECURSIVE Build(_, _)
        Build(i, m) ==
            IF i > Len(entries) THEN m
            ELSE Build(i + 1, IF entries[i].units > 0
                              THEN MapSet(m, normalizeCode(entries[i].code), entries[i].units)
                              ELSE m)
    IN  Build(1, <<>>)

\* courseMap.get(code): the last node carrying exactly this code
courseMapGet(code) ==
    LET hits == SelectSeq(Nodes, LAMBDA node : node.code = code)
    IN  IF hits = <<>> THEN <<>> ELSE <<hits[Len(hits)]>>

\* the timeline's own getCourseCredits: both maps are read with the code as given
timelineCourseCredits(code) ==
    LET course == courseMapGet(code)
    IN  IF course # <<>> /\ course[1].credits > 0 THEN course[1].credits
        ELSE IF MapHas(creditsFallback, code) THEN MapGet(creditsFallback, code)
        ELSE 0

\* ar.id_hint.match(/req_term_(\d+[ab])_any/i), then termMatch[1].toUpperCase()
anyReqTerm(cs) ==
    LET at == {i \in 1..(Len(cs.id_hint) - 3) :
                  /\ cs.id_hint[i] = "req_term_"
                  /\ cs.id_hint[i + 1] \in Digits
                  /\ toLowerCase(cs.id_hint[i + 2]) \in {"a", "b"}
                  /\ cs.id_hint[i + 3] = "_any"}
    IN  IF at = {} THEN NoTerm
        ELSE LET i == CHOOSE k \in at : \A j \in at : k <= j
             IN  <<cs.id_hint[i + 1], toUpperCase(cs.id_hint[i + 2])>>

\* anyReqMap.get(term): anyReqMap.set(term, ar) keeps the last set of a term
anyReqMapGet(term) ==
    LET hits == SelectSeq(CourseSets, LAMBDA cs : anyReqTerm(cs) # NoTerm /\ anyReqTerm(cs) = term)
    IN  IF hits = <<>> THEN <<>> ELSE <<hits[Len(hits)]>>

selectedCredits(term, selection, assign) ==
    LET termCourses == SelectSeq(RequiredByTerm(term), LAMBDA code : code \in selection)
        anyReq == anyReqMapGet(term)
        selectedAnyCourses == IF anyReq = <<>> THEN <<>>
                              ELSE SelectSeq(anyReq[1].courses, LAMBDA code : code \in selection)
        electiveCodesForTerm == {code \in DOMAIN assign : assign[code] = term /\ code \in selection}
        RECURSIVE SumSet(_)
        SumSet(S) == IF S = {} THEN 0
                     ELSE LET x == CHOOSE y \in S : TRUE
                          IN  timelineCourseCredits(x) + SumSet(S \ {x})
    IN  SumSeq([i \in 1..Len(termCourses) |-> timelineCourseCredits(termCourses[i])])
        + (IF selectedAnyCourses = <<>> THEN 0 ELSE timelineCourseCredits(selectedAnyCourses[1]))
        + SumSet(electiveCodesForTerm)

\* the code the "+ Add Elective" prompt hands on: input.trim().toUpperCase()
promptCode(input) == [i \in 1..Len(trim(input)) |-> toUpperCase(trim(input)[i])]

ElectiveInputs == {<<"e", "c", "2">>, <<"E", "C", " ", "2">>, <<" ", "e", "c", "1">>}

\* the timeline in use: a term box selects its own required and select-one courses,
\* the elective prompt of a term selects the typed code into that term
TimelineRequests ==
    {<<CS1, T2A>>, <<MA1, T2A>>, <<ST1, T2B>>, <<ST2, T2B>>, <<ST3, T2B>>}
    \cup {<<promptCode(input), term>> : input \in ElectiveInputs, term \in {T2A, T2B}}

NextTimeline ==
    \/ \E req \in TimelineRequests : HandleCourseSelect(req[1], req[2])
    \/ \E req \in TimelineRequests : HandleCourseDeselect(req[1])

SpecTimeline == Init /\ [][NextTimeline]_vars

\* C28: for every plan and term the total the timeline displays equals the total the
\* select handler uses for the cap check, also when a term has several select-one sets.
C28_TimelineTotalIsHandlerTotal ==
    \A term \in Terms :
        selectedCredits(term, selectedCourses, electiveAssignments)
            = computeTermCredits(term, selectedCourses, electiveAssignments)


\* the part of a term's displayed total that comes from its select-one sets
TimelineSelectOneCredits(term, selection, assign) ==
    LET required == SeqToSet(RequiredByTerm(term)) \cap selection
        electives == {c \in DOMAIN assign : assign[c] = term /\ c \in selection}
        RECURSIVE SumSet(_)
        SumSet(S) == IF S = {} THEN 0
                     ELSE LET x == CHOOSE y \in S : TRUE
                          IN  timelineCourseCredits(x) + SumSet(S \ {x})
    IN  selectedCredits(term, selection, assign) - SumSet(required) - SumSet(electives)

\* the handler's total counts, for each select-one set of the term, its first selected member
HandlerCountsFirstMember ==
    \A term \in Terms :
        SelectOneCredits(term, selectedCourses, electiveAssignments)
            = SumSeq([i \in 1..Len(anySets(term)) |->
                         SetShare(anySets(term)[i], selectedCourses)])

\* C23: for each select-one set of a term the term's total (the handler's and the one the
\* timeline displays) counts the credits of exactly one member, the first selected one in
\* declared order, and 0 when none is selected, however many members are selected.
C23_SelectOneCountsFirstMember ==
    /\ HandlerCountsFirstMember
    /\ \A term \in Terms :
           TimelineSelectOneCredits(term, selectedCourses, electiveAssignments)
               = SumSeq([i \in 1..Len(anySets(term)) |->
                            SetShare(anySets(term)[i], selectedCourses)])


\* C24: after any sequence of select and deselect calls every course that has an
\* elective-term assignment is in the selected set.
C24_AssignedCoursesAreSelected ==
    batch = 0 => DOMAIN electiveAssignments \subseteq selectedCourses


\* C25: starting from a plan whose term totals are all within the ceiling, every plan
\* reachable by select and deselect calls keeps every term's total (required, one
\* select-one, assigned electives) within the ceiling.
C25_TotalsStayWithinCeiling ==
    \A term \in Terms :
        computeTermCredits(term, selectedCourses, electiveAssignments)
            <= CreditCeiling + CreditTolerance


\* C26: deselecting a course never increases any term's credit total.
C26_DeselectNeverIncreasesTotal ==
    lastOp.kind = "deselect" =>
        \A term \in Terms :
            computeTermCredits(term, selectedCourses, electiveAssignments)
                <= computeTermCredits(term, lastOp.prevSelected, lastOp.prevAssign)


\* C27: prerequisite satisfaction is monotonic in the selection: if meetsPrerequisites
\* holds for a selection it holds for every superset of it, so a course that has become
\* eligible stays eligible while courses are only added.
C27_MeetsIsMonotonic ==
    (evPc = "done" /\ evMeets) =>
        \A more \in SUBSET EvSources :
            meetsPrerequisites(EvTarget, evEdges, evSelected \cup more)

\* satisfied through one alternative of a group while another alternative and a
\* course outside the edge list can still be added
C27_Witness ==
    /\ evPc = "done" /\ evMeets
    /\ \E i, j \in 1..Len(evEdges) :
           /\ evEdges[i].logic = "ANY" /\ evEdges[j].logic = "ANY"
           /\ evEdges[i].group_id = evEdges[j].group_id
           /\ evEdges[i].source \in evSelected
           /\ evEdges[j].source \notin evSelected
    /\ \E k \in 1..Len(evEdges) : evEdges[k].logic = "ALL"


---------------------------------------------------------------------------
(* RequirementBoxes.tsx: the panel's own prerequisite check *)

\* every PREREQ edge of the course is required, whatever its logic and group
boxMeetsPrerequisites(courseCode, edges, selection) ==
    IF Len(edges) = 0 THEN TRUE
    ELSE LET own == SelectSeq(edges, LAMBDA edge :
                        normalizeCode(edge.target) = normalizeCode(courseCode)
                        /\ edge.type = "PREREQ")
         IN  IF Len(own) = 0 THEN TRUE
             ELSE \A i \in 1..Len(own) :
                      \E selected \in selection :
                          normalizeCode(selected) = normalizeCode(own[i].source)

\* C29: for every course, edge list and selection the eligibility each panel shows
\* equals the eligibility the select handler enforces: a course is shown as ready to
\* take iff selecting it would pass the prerequisite check.
C29_PanelEligibilityIsEnforced ==
    evPc = "done" => (boxMeetsPrerequisites(EvTarget, evEdges, evSelected) <=> evMeets)


---------------------------------------------------------------------------
(* usePlans.ts: the saved plans of the signed-in user *)

MaxFetches == 3

Users == {"u1", "u2"}

\* the rows of user_plans, newest first
UserPlansTable == <<
    [id |-> "p1", user_id |-> "u1"],
    [id |-> "p2", user_id |-> "u2"],
    [id |-> "p3", user_id |-> "u1"] >>

\* supabase.from('user_plans').select('*').eq('user_id', id).order('updated_at', ...)
selectUserPlans(id) == SelectSeq(UserPlansTable, LAMBDA row : row.user_id = id)

\* useAuth() hands the hook another user: the effect runs, clears the list for no
\* user and otherwise starts fetchPlans up to its await
UserChanges(next) ==
    /\ next # user
    /\ user' = next
    /\ IF next = NoUser
       THEN /\ plans' = <<>>
            /\ loading' = FALSE
            /\ UNCHANGED <<error, inFlight>>
       ELSE /\ Len(inFlight) < MaxFetches
            /\ loading' = TRUE
            /\ error' = FALSE
            /\ inFlight' = Append(inFlight, next)
            /\ UNCHANGED plans
    /\ UNCHANGED <<planVars, evalVars, rankIn, rankOut, resolveIn, resolveOut>>

\* the reply to one fetchPlans call arrives and the call runs to its end
FetchPlansResumes(i, reply) ==
    /\ i \in 1..Len(inFlight)
    /\ CASE reply = "data" ->
                plans' = selectUserPlans(inFlight[i]) /\ UNCHANGED error
         [] reply = "42P01" ->
                plans' = <<>> /\ UNCHANGED error
         [] OTHER ->
                error' = TRUE /\ UNCHANGED plans
    /\ loading' = FALSE
    /\ inFlight' = SubSeq(inFlight, 1, i - 1) \o SubSeq(inFlight, i + 1, Len(inFlight))
    /\ UNCHANGED user
    /\ UNCHANGED <<planVars, evalVars, rankIn, rankOut, resolveIn, resolveOut>>

NextPlans ==
    \/ \E next \in Users \cup {NoUser} : UserChanges(next)
    \/ \E i \in 1..MaxFetches, reply \in {"data", "42P01", "error"} : FetchPlansResumes(i, reply)

SpecPlans == Init /\ [][NextPlans]_vars

\* C30: the locally held list of saved plans always belongs to the current user: it is
\* empty from a sign-out until the next sign-in, and after a switch of user it never
\* shows the previous user's plans, however a plan fetch in flight interleaves.
C30_PlansBelongToCurrentUser ==
    \A k \in 1..Len(plans) : plans[k].user_id = user

===========================================================================
